---- MODULE Spec2Model ----
(***************************************************************************)
(* A model of python/paddle/decomposition/decomp.py: the forward           *)
(* decomposition pass (decompose, _decompose_subgraph), the result         *)
(* validator (_check_op_results), the argument adapter, the backward       *)
(* decomposer (_decomp_bwd_op and its helpers) and the program driver      *)
(* (decompose_pir_program).                                                *)
(*                                                                         *)
(* A program is a record [ops, block]: ops is the sequence of every        *)
(* operation ever created (an operation's id is its index), block is the   *)
(* ordered sequence of the ids that are in the global block.  A Value is   *)
(* the pair (producing op, result slot).  Use-edges are the operand lists  *)
(* of the operations that are in the block.                                *)
(***************************************************************************)
EXTENDS Integers, Sequences, FiniteSets, TLC

VARIABLES
  program,              \* [ops, block]: the pir Program's global block
  fwd_prim,             \* core._is_fwd_prim_enabled()
  bwd_prim,             \* core._is_bwd_prim_enabled()
  forward_blacklist,    \* core.prim_config["forward_blacklist"]
  composite_ops_record, \* core.prim_config["composite_ops_record"]
  vjp_rules,            \* forward op names that have a composite vjp rule
  param_mapping,        \* external name -> list of pir Values
  ext_grad_var_to_var,  \* external grad name -> forward name
  pc,                   \* position of the running call
  err,                  \* the exception a call left through ("" when none)
  ret,                  \* the value the last call returned
  src_vars,             \* decompose: argument
  blacklist,            \* decompose: blacklist after line 189
  whitelist,            \* decompose: argument
  orig_vars,            \* decompose: dst_vars_dct
  dst_vars,             \* decompose: dst_vars
  ops_list,             \* snapshot of block.ops taken by the running loop
  idx,                  \* loop index into ops_list (1-based)
  temp_op,              \* _decompose_subgraph: temp_op (0 is None)
  grad_var_to_var,      \* pir_grad_var_to_var
  prev_state,           \* decompose_pir_program: saved flags
  bwd_ops,              \* decompose_pir_program: result of _get_bwd_ops_name
  report,               \* decompose_pir_program: counts and name lists
  bwd_op,               \* _decomp_bwd_op: the gradient op under work (0: none)
  fwd_op,               \* _decomp_bwd_op: the paired forward op (0: None)
  fwd_locals,           \* _decomp_bwd_op: fwd_inputs and new_fwd_outputs
  runs,                 \* number of API calls made so far
  hist                  \* history of the running call, for the properties

vars == <<program, fwd_prim, bwd_prim, forward_blacklist, composite_ops_record,
          vjp_rules, param_mapping, ext_grad_var_to_var, pc, err, ret, src_vars,
          blacklist, whitelist, orig_vars, dst_vars, ops_list, idx, temp_op,
          grad_var_to_var, prev_state, bwd_ops, report, bwd_op, fwd_op,
          fwd_locals, runs, hist>>

(***************************************************************************)
(* Bounds of the model.                                                    *)
(***************************************************************************)
\* longest src_vars list handed to decompose
MaxSrcLen == 2
\* number of API calls in one behaviour
MaxRuns == 2
\* most consumers of a combine helper placed after the decomposed op
MaxPostUses == 2

(***************************************************************************)
(* Values.                                                                 *)
(***************************************************************************)
Val(o, i) == [op |-> o, idx |-> i]
\* Python None
None == [op |-> -1, idx |-> 0]
\* pir.fake_op_result(): a Value with no producer
fake_op_result == [op |-> 0, idx |-> 0]

Range(s) == {s[i] : i \in DOMAIN s}
Contains(s, x) == \E i \in DOMAIN s : s[i] = x
\* list.index(x): the first position of x
IndexOf(s, x) == CHOOSE i \in DOMAIN s : s[i] = x /\ \A j \in 1..(i - 1) : s[j] # x

\* str.endswith and the substring test, on the characters of the strings
endswith(s, suffix) ==
  Len(s) >= Len(suffix) /\ SubSeq(s, Len(s) - Len(suffix) + 1, Len(s)) = suffix
contains_str(s, sub) ==
  \E i \in 1..(Len(s) - Len(sub) + 1) : SubSeq(s, i, i + Len(sub) - 1) = sub

\* Value.get_defining_op(): 0 stands for None
get_defining_op(v) == IF v.op > 0 THEN v.op ELSE 0
\* Value.initialized()
initialized(p, v) == v.op > 0 /\ p.ops[v.op].rinit[v.idx]
TypeOf(p, v) == p.ops[v.op].rtypes[v.idx]
\* Operation.results()
results(p, o) == [i \in DOMAIN p.ops[o].rtypes |-> Val(o, i)]
\* [x.source() for x in op.operands()]
operands(p, o) == p.ops[o].operands

InBlock(p, o) == Contains(p.block, o)
\* the use-edges of Value v: (consumer, operand position)
Uses(p, v) == UNION {{<<o, k>> : k \in {j \in DOMAIN p.ops[o].operands :
                                              p.ops[o].operands[j] = v}} :
                    o \in Range(p.block)}
has_one_use(p, v) == Cardinality(Uses(p, v)) = 1

(***************************************************************************)
(* Block: insert-before, move-to-position, remove.                         *)
(***************************************************************************)
\* a variant of remove_op that leaves the op in the block
remove_op_kept(p, o) == p

\* block.remove_op(op): the op leaves the block and with it its use-edges
remove_op(p, o) == [p EXCEPT !.block = SelectSeq(@, LAMBDA x : x # o)]

\* a variant of move_op that leaves the op where it is
move_op_unmoved(p, o, pos) == p

\* block.move_op(op, pos): op is taken out and put at position pos
move_op(p, o, pos) ==
  LET rest == SelectSeq(p.block, LAMBDA x : x # o)
  IN [p EXCEPT !.block = SubSeq(rest, 1, pos - 1) \o <<o>> \o SubSeq(rest, pos, Len(rest))]

\* builder: create the ops recs, in order, before op `point` (0: at the end)
build_ops(p, point, recs) ==
  LET n   == Len(p.ops)
      ids == [i \in DOMAIN recs |-> n + i]
      k   == IF point = 0 THEN Len(p.block) + 1 ELSE IndexOf(p.block, point)
  IN [ops   |-> p.ops \o recs,
      block |-> SubSeq(p.block, 1, k - 1) \o ids \o SubSeq(p.block, k, Len(p.block))]

\* Value.replace_all_uses_with, for the pairs (olds[i], news[i]) with i in slots
replace_uses(p, olds, news, slots) ==
  LET sub(v) == IF \E i \in slots : olds[i] = v
                THEN news[CHOOSE i \in slots : olds[i] = v]
                ELSE v
  IN [p EXCEPT !.ops = [o \in DOMAIN p.ops |->
        IF InBlock(p, o)
        THEN [p.ops[o] EXCEPT !.operands = [k \in DOMAIN @ |-> sub(@[k])]]
        ELSE p.ops[o]]]

(***************************************************************************)
(* The rule catalogue.  The registry, the native decomposition interface   *)
(* and the two exception tables are collaborators of decomp.py; the names  *)
(* below are the entries the modelled programs use.                        *)
(***************************************************************************)
combine_op_name == "builtin.combine"
\* register.get_decomp_rule(op_name): the rules registered by rules.py
RegisteredRules == {"pd_op.mean", "pd_op.gelu", "pd_op.rsqrt"}
get_decomp_rule(op_name) == op_name \in RegisteredRules
\* has_decomp(op): the ops with a native decomposition
NativeDecomp == {"pd_op.layer_norm", "pd_op.add_n", "pd_op.squeeze"}
has_decomp(rec) == rec.name \in NativeDecomp
\* decomp_ops_contain_unused_output: op name -> result slots left unused
decomp_ops_contain_unused_output == [n \in {"pd_op.squeeze"} |-> {2}]
\* core.ops_contain_none: the ops whose outputs may be None
ops_contain_none == {"pd_op.squeeze"}

(***************************************************************************)
(* Argument Adapter.                                                       *)
(***************************************************************************)
TensorArg(v) == [kind |-> "tensor", val |-> v, items |-> <<>>, attr |-> ""]
ListArg(vs)  == [kind |-> "list", val |-> None, items |-> vs, attr |-> ""]
NoneArg      == [kind |-> "none", val |-> None, items |-> <<>>, attr |-> ""]
AttrArg(a)   == [kind |-> "attr", val |-> None, items |-> <<>>, attr |-> a]

\* a variant of _prepare_python_api_arguments that passes the result of a
\* combine helper on as one Value
_prepare_python_api_arguments_packed(p, o) ==
  LET rec == p.ops[o]
  IN [k \in DOMAIN rec.operands |->
        IF initialized(p, rec.operands[k]) THEN TensorArg(rec.operands[k]) ELSE NoneArg]
     \o [k \in DOMAIN rec.attr_names |-> AttrArg(rec.attrs[k])]

\* lines 58-88
_prepare_python_api_arguments(p, o) ==
  LET rec == p.ops[o]
      inputs == [k \in DOMAIN rec.operands |->
        LET input == rec.operands[k]
        IN IF initialized(p, input)
           THEN IF p.ops[get_defining_op(input)].name = combine_op_name
                THEN ListArg(operands(p, get_defining_op(input)))
                ELSE TensorArg(input)
           ELSE NoneArg]
  IN IF rec.name = combine_op_name
     THEN <<[kind |-> "inputs", val |-> None, items |-> <<>>, attr |-> "",
             inputs |-> inputs]>>
     ELSE inputs \o [k \in DOMAIN rec.attr_names |-> AttrArg(rec.attrs[k])]

(***************************************************************************)
(* Result Validator.  orig_vars=None and dst_vars=None are the empty map   *)
(* and the empty list: with either, line 125 is never reached.             *)
(***************************************************************************)
CheckResult(e, d) == [err |-> e, dst |-> d]

RECURSIVE check_pairs(_, _, _, _, _, _, _)
check_pairs(p, k, op_name, orig_outs, new_outs, ovars, dst) ==
  IF k > Len(orig_outs) THEN CheckResult("", dst)
  ELSE LET orig_out == orig_outs[k]
           new_out  == new_outs[k]
       IN IF (orig_out = None \/ new_out = None) /\ op_name \notin ops_contain_none
          THEN CheckResult("ValueError", dst)
          ELSE IF orig_out = None
          THEN check_pairs(p, k + 1, op_name, orig_outs, new_outs, ovars, dst)
          ELSE IF new_out # None
          THEN LET dst1 == IF orig_out \in DOMAIN ovars /\ dst # <<>>
                           THEN [dst EXCEPT ![ovars[orig_out]] = new_out]
                           ELSE dst
                   ot == TypeOf(p, orig_out)
                   nt == TypeOf(p, new_out)
               IN IF ot.dtype # nt.dtype THEN CheckResult("AssertionError", dst1)
                  ELSE IF Contains(nt.shape, -1) THEN CheckResult("AssertionError", dst1)
                  ELSE IF ot.shape # nt.shape THEN CheckResult("AssertionError", dst1)
                  ELSE CheckResult("", dst1)    \* the return of line 144
          ELSE CheckResult("", dst)             \* the return of line 144

_check_op_results(p, op_name, orig_outs, new_outs, ovars, dst) ==
  IF Len(orig_outs) # Len(new_outs)
  THEN CheckResult("AssertionError", dst)
  ELSE check_pairs(p, 1, op_name, orig_outs, new_outs, ovars, dst)

(***************************************************************************)
(* Running a decomposition rule.  The rule body is a collaborator: it      *)
(* builds primitive ops at the insertion point from the adapted arguments  *)
(* and returns one output per slot.  What it returns is not under the      *)
(* pass's control, so the outcome says how the outputs deviate from the    *)
(* original ones: not at all, by one extra output, or in the dtype or the  *)
(* shape of one slot.                                                      *)
(***************************************************************************)
T(d, s) == [dtype |-> d, shape |-> s]
T0 == T("float32", <<4>>)

RuleOutcomes(n) ==
  {[extra |-> 0, bad |-> 0, kind |-> "ok"], [extra |-> 1, bad |-> 0, kind |-> "ok"]}
  \cup {[extra |-> 0, bad |-> k, kind |-> d] : k \in 1..n, d \in {"dtype", "shape", "dyn"}}

Deviate(t, kind) ==
  CASE kind = "dtype" -> [t EXCEPT !.dtype = IF @ = "float32" THEN "float16" ELSE "float32"]
    [] kind = "shape" -> [t EXCEPT !.shape = IF @ = <<5>> THEN <<4>> ELSE <<5>>]
    [] kind = "dyn"   -> [t EXCEPT !.shape = <<-1>>]
    [] OTHER          -> t

NewTypes(orig, outcome) ==
  [i \in 1..(Len(orig) + outcome.extra) |->
     IF i > Len(orig) THEN T0
     ELSE IF outcome.bad = i THEN Deviate(orig[i], outcome.kind) ELSE orig[i]]

\* the Values among the adapted arguments, in order
RECURSIVE ArgValues(_)
ArgValues(args) ==
  IF args = <<>> THEN <<>>
  ELSE LET a == Head(args)
       IN (CASE a.kind = "tensor" -> <<a.val>>
             [] a.kind = "list"   -> a.items
             [] OTHER             -> <<>>) \o ArgValues(Tail(args))

PrimOp(name, ins, types) ==
  [name |-> name, operands |-> ins,
   in_names |-> [k \in DOMAIN ins |-> "x"],
   out_names |-> [k \in DOMAIN types |-> "out"],
   rtypes |-> types, rinit |-> [k \in DOMAIN types |-> TRUE],
   attr_names |-> <<>>, attrs |-> <<>>]

\* lines 266-274 and 343-351: [p, new_outs, err]
call_rule(p, o, point, outcome) ==
  LET rec        == p.ops[o]
      input_args == _prepare_python_api_arguments(p, o)
      n          == Len(p.ops)
      types      == NewTypes(rec.rtypes, outcome)
      p1         == build_ops(p, point,
                       <<PrimOp("pd_op.cast", ArgValues(input_args), <<T0>>),
                         PrimOp("pd_op.pow", <<Val(n + 1, 1)>>, types)>>)
      unused     == IF rec.name \in DOMAIN decomp_ops_contain_unused_output
                    THEN decomp_ops_contain_unused_output[rec.name] ELSE {}
      outs       == [i \in DOMAIN types |->
                       IF has_decomp(rec) /\ i \in unused THEN None ELSE Val(n + 2, i)]
  IN [p |-> p1, new_outs |-> outs,
      \* _analyse_decomp_results, line 41
      err |-> IF has_decomp(rec) /\ Len(outs) # Len(rec.rtypes)
              THEN "AssertionError" ELSE ""]

(***************************************************************************)
(* The programs the pass is run on.                                        *)
(***************************************************************************)
Op(name, ins, in_names, out_names) ==
  [name |-> name, operands |-> ins, in_names |-> in_names, out_names |-> out_names,
   rtypes |-> [k \in DOMAIN out_names |-> T0],
   rinit |-> [k \in DOMAIN out_names |-> TRUE],
   attr_names |-> <<>>, attrs |-> <<>>]
WithAttrs(rec, names, vals) == [rec EXCEPT !.attr_names = names, !.attrs = vals]
Data == Op("pd_op.data", <<>>, <<>>, <<"out">>)
Unary(name, v) == Op(name, <<v>>, <<"x">>, <<"out">>)

EmptyMap == [v \in {} |-> None]
MapPut(m, k, v) == [x \in DOMAIN m \cup {k} |-> IF x = k THEN v ELSE m[x]]

\* x; mean(x); gelu(mean); relu(gelu)
P_mean ==
  <<Data,
    WithAttrs(Unary("pd_op.mean", Val(1, 1)), <<"axis", "keepdim">>, <<"[1]", "False">>),
    WithAttrs(Unary("pd_op.gelu", Val(2, 1)), <<"approximate">>, <<"False">>),
    Unary("pd_op.relu", Val(3, 1))>>

\* x; layer_norm(x, scale unset, bias unset) -> (out, mean); add(out, mean)
P_layer_norm ==
  <<Data,
    WithAttrs(Op("pd_op.layer_norm", <<Val(1, 1), fake_op_result, fake_op_result>>,
                 <<"x", "scale", "bias">>, <<"out", "mean">>),
              <<"epsilon">>, <<"1e-5">>),
    Op("pd_op.add", <<Val(2, 1), Val(2, 2)>>, <<"x", "y">>, <<"out">>)>>

\* x; squeeze(x) -> (out, xshape); relu(out)
P_squeeze ==
  <<Data,
    Op("pd_op.squeeze", <<Val(1, 1)>>, <<"x">>, <<"out", "xshape">>),
    Unary("pd_op.relu", Val(2, 1))>>

\* x; y; c = combine(x, y); pre x concat(c); f; post x concat(c); relu(f)
\* where f is add_n(c) when direct, and mean(x) otherwise
P_combine(pre, post, direct) ==
  LET c == Val(3, 1)
      f == 4 + pre
  IN <<Data, Data, Op(combine_op_name, <<Val(1, 1), Val(2, 1)>>, <<"x", "x">>, <<"out">>)>>
     \o [k \in 1..pre |-> Unary("pd_op.concat", c)]
     \o <<IF direct THEN Op("pd_op.add_n", <<c>>, <<"inputs">>, <<"out">>)
          ELSE WithAttrs(Unary("pd_op.mean", Val(1, 1)),
                         <<"axis", "keepdim">>, <<"[1]", "False">>)>>
     \o [k \in 1..post |-> Unary("pd_op.concat", c)]
     \o <<Unary("pd_op.relu", Val(f, 1))>>

\* x; c1 = combine(x, x); c2 = combine(x, x); add_n(c1, c2); relu
P_two_combines ==
  <<Data,
    Op(combine_op_name, <<Val(1, 1), Val(1, 1)>>, <<"x", "x">>, <<"out">>),
    Op(combine_op_name, <<Val(1, 1), Val(1, 1)>>, <<"x", "x">>, <<"out">>),
    Op("pd_op.add_n", <<Val(2, 1), Val(3, 1)>>, <<"inputs", "inputs">>, <<"out">>),
    Unary("pd_op.relu", Val(4, 1))>>

\* x; m = mean(x); c = combine(m, m); add_n(c); relu
P_mean_add_n ==
  <<Data,
    WithAttrs(Unary("pd_op.mean", Val(1, 1)), <<"axis", "keepdim">>, <<"[1]", "False">>),
    Op(combine_op_name, <<Val(2, 1), Val(2, 1)>>, <<"x", "x">>, <<"out">>),
    Op("pd_op.add_n", <<Val(3, 1)>>, <<"inputs">>, <<"out">>),
    Unary("pd_op.relu", Val(4, 1))>>

\* x; c = combine(x, x); s = add_n(c); m = mean(s); relu
P_add_n_mean ==
  <<Data,
    Op(combine_op_name, <<Val(1, 1), Val(1, 1)>>, <<"x", "x">>, <<"out">>),
    Op("pd_op.add_n", <<Val(2, 1)>>, <<"inputs">>, <<"out">>),
    WithAttrs(Unary("pd_op.mean", Val(3, 1)), <<"axis", "keepdim">>, <<"[1]", "False">>),
    Unary("pd_op.relu", Val(4, 1))>>

Scenario(recs, pm, g2v) ==
  [program |-> [ops |-> recs, block |-> [k \in DOMAIN recs |-> k]],
   param_mapping |-> pm, grad_var_to_var |-> g2v, vjp_rules |-> {}]

FwdScenarios ==
  {Scenario(recs, EmptyMap, <<>>) :
     recs \in {P_mean, P_layer_norm, P_squeeze, P_two_combines, P_mean_add_n,
              P_add_n_mean}
              \cup {P_combine(pre, post, direct) :
                      pre \in 0..1, post \in 0..MaxPostUses, direct \in BOOLEAN}}

\* the external names of a forward op, its gradient op and their Values
PairMapping(x, out, og, xg) ==
  [n \in {"x", "out", "out@GRAD", "x@GRAD"} |->
     CASE n = "x" -> <<x>> [] n = "out" -> <<out>>
       [] n = "out@GRAD" -> <<og>> [] OTHER -> <<xg>>]
PairGradVarToVar == <<<<"out@GRAD", "out">>, <<"x@GRAD", "x">>>>

\* x; out = f(x); og; g(x, third, og) -> x_grad; relu(x_grad)
\* where third is f's output, or the Value of another data op
B_pair(f, g, third_is_out) ==
  <<Data,
    Unary(f, Val(1, 1)),
    Data,
    Op(g, <<Val(1, 1), IF third_is_out THEN Val(2, 1) ELSE Val(6, 1), Val(3, 1)>>,
       <<"x", "out", "out_grad">>, <<"x_grad">>),
    Unary("pd_op.relu", Val(4, 1)),
    Data>>

\* B_pair of mean, with a last op of the given name that reads out
B_pair_tail(tail) ==
  [B_pair("pd_op.mean", "pd_op.mean_grad", TRUE) EXCEPT ![6] = Unary(tail, Val(2, 1))]

\* x; axis; out = mean(x, axis); og; axis2; mean_grad -> x_grad; relu(x_grad)
\* the gradient op reads its own index array (own) or the forward op's,
\* before (axis_first) or after the output gradient
B_index(own, axis_first) ==
  LET ax == IF own THEN Val(5, 1) ELSE Val(2, 1)
  IN <<Data,
       Op("pd_op.full_int_array", <<>>, <<>>, <<"out">>),
       Op("pd_op.mean", <<Val(1, 1), Val(2, 1)>>, <<"x", "axis">>, <<"out">>),
       Data,
       Op("pd_op.full_int_array", <<>>, <<>>, <<"out">>),
       IF axis_first
       THEN Op("pd_op.mean_grad", <<Val(1, 1), ax, Val(4, 1)>>,
               <<"x", "axis", "out_grad">>, <<"x_grad">>)
       ELSE Op("pd_op.mean_grad", <<Val(1, 1), Val(4, 1), ax>>,
               <<"x", "out_grad", "axis">>, <<"x_grad">>),
       Unary("pd_op.relu", Val(6, 1))>>

\* x; layer_norm(x) -> (out, mean); og; layer_norm_grad -> (x_grad, -, -); relu
B_layer_norm ==
  <<Data,
    Op("pd_op.layer_norm", <<Val(1, 1), fake_op_result, fake_op_result>>,
       <<"x", "scale", "bias">>, <<"out", "mean">>),
    Data,
    [Op("pd_op.layer_norm_grad",
        <<Val(1, 1), fake_op_result, fake_op_result, Val(2, 2), Val(3, 1)>>,
        <<"x", "scale", "bias", "mean", "out_grad">>,
        <<"x_grad", "scale_grad", "bias_grad">>)
       EXCEPT !.rinit = <<TRUE, FALSE, FALSE>>],
    Unary("pd_op.relu", Val(4, 1))>>

\* x; m = mean(x); t = tanh(m); og; tanh_grad -> m_grad; mean_grad -> x_grad
B_chain ==
  <<Data,
    Unary("pd_op.mean", Val(1, 1)),
    Unary("pd_op.tanh", Val(2, 1)),
    Data,
    Op("pd_op.tanh_grad", <<Val(2, 1), Val(3, 1), Val(4, 1)>>,
       <<"x", "out", "out_grad">>, <<"x_grad">>),
    Op("pd_op.mean_grad", <<Val(1, 1), Val(2, 1), Val(5, 1)>>,
       <<"x", "out", "out_grad">>, <<"x_grad">>)>>
ChainMapping ==
  [n \in {"x", "m", "t", "t@GRAD", "m@GRAD", "x@GRAD"} |->
     CASE n = "x" -> <<Val(1, 1)>> [] n = "m" -> <<Val(2, 1)>>
       [] n = "t" -> <<Val(3, 1)>> [] n = "t@GRAD" -> <<Val(4, 1)>>
       [] n = "m@GRAD" -> <<Val(5, 1)>> [] OTHER -> <<Val(6, 1)>>]
ChainGradVarToVar == <<<<"t@GRAD", "t">>, <<"m@GRAD", "m">>, <<"x@GRAD", "x">>>>

BwdScenario(recs, pm, g2v, vjp) == [Scenario(recs, pm, g2v) EXCEPT !.vjp_rules = vjp]

BwdScenarios ==
  \* a rule and no rule, with and without a composite vjp rule
  {BwdScenario(B_pair(f, f \o "_grad", TRUE),
               PairMapping(Val(1, 1), Val(2, 1), Val(3, 1), Val(4, 1)),
               PairGradVarToVar, vjp) :
     f \in {"pd_op.mean", "pd_op.tanh"}, vjp \in {{}, {"pd_op.mean", "pd_op.tanh"}}}
  \* pairings that fail: the name, an input from elsewhere, an in-place
  \* gradient op, no entry for the output gradient
  \cup {BwdScenario(B_pair("pd_op.mean", "pd_op.tanh_grad", TRUE),
                    PairMapping(Val(1, 1), Val(2, 1), Val(3, 1), Val(4, 1)),
                    PairGradVarToVar, {"pd_op.mean"}),
        [BwdScenario(B_pair("pd_op.mean", "pd_op.mean_grad", FALSE),
                     PairMapping(Val(1, 1), Val(2, 1), Val(3, 1), Val(4, 1)),
                     PairGradVarToVar, {"pd_op.mean"})
           EXCEPT !.program.block = <<1, 2, 3, 6, 4, 5>>],
        BwdScenario(B_pair("pd_op.relu_", "pd_op.relu_grad_", TRUE),
                    PairMapping(Val(1, 1), Val(2, 1), Val(3, 1), Val(4, 1)),
                    PairGradVarToVar, {"pd_op.relu_"}),
        BwdScenario(B_pair("pd_op.mean", "pd_op.mean_grad", TRUE),
                    PairMapping(Val(1, 1), Val(2, 1), Val(3, 1), Val(4, 1)),
                    <<<<"x@GRAD", "x">>>>, {"pd_op.mean"})}
  \* an input named as a forward one that no op produces
  \cup {[BwdScenario(B_pair("pd_op.mean", "pd_op.mean_grad", TRUE),
                     PairMapping(Val(1, 1), Val(2, 1), Val(3, 1), Val(4, 1)),
                     PairGradVarToVar, {"pd_op.mean"})
           EXCEPT !.program.ops[4].operands[2] = fake_op_result]}
  \* an external name with two Values of which neither is preferred
  \cup {[BwdScenario(B_pair("pd_op.mean", "pd_op.mean_grad", TRUE),
                     PairMapping(Val(1, 1), Val(2, 1), Val(3, 1), Val(4, 1)),
                     PairGradVarToVar, {})
           EXCEPT !.param_mapping["out"] = <<Val(2, 1), Val(6, 1)>>]}
  \* an external name with two Values, the second one made by a slice or
  \* by an in-place op, on the forward side and on the gradient side
  \cup {[BwdScenario(B_pair_tail(tail),
                     PairMapping(Val(1, 1), Val(2, 1), Val(3, 1), Val(4, 1)),
                     PairGradVarToVar, {})
           EXCEPT !.param_mapping[n] = Append(@, Val(6, 1))] :
          tail \in {"builtin.slice", "pd_op.assign_"}, n \in {"out", "out@GRAD"}}
  \* an external name that the mapping does not hold
  \cup {[BwdScenario(B_pair("pd_op.mean", "pd_op.mean_grad", TRUE),
                     PairMapping(Val(1, 1), Val(2, 1), Val(3, 1), Val(4, 1)),
                     PairGradVarToVar, {})
           EXCEPT !.param_mapping = [n \in {"x", "out", "out@GRAD"} |-> @[n]]]}
  \cup {BwdScenario(B_index(own, axis_first),
                    PairMapping(Val(1, 1), Val(3, 1), Val(4, 1), Val(6, 1)),
                    PairGradVarToVar, vjp) :
          own \in BOOLEAN, axis_first \in BOOLEAN, vjp \in {{}, {"pd_op.mean"}}}
  \cup {BwdScenario(B_layer_norm,
                    PairMapping(Val(1, 1), Val(2, 1), Val(3, 1), Val(4, 1)),
                    PairGradVarToVar, vjp) : vjp \in {{}, {"pd_op.layer_norm"}}}
  \cup {BwdScenario(B_chain, ChainMapping, ChainGradVarToVar, vjp) :
          vjp \in SUBSET {"pd_op.mean", "pd_op.tanh"}}

Scenarios == FwdScenarios \cup BwdScenarios

\* the names a caller puts in the blacklist and the whitelist
FilterNames == {"pd_op.mean", "pd_op.add_n"}

\* the Values a caller asks decompose to observe
Observable(p) ==
  UNION {Range(results(p, o)) :
           o \in {i \in Range(p.block) : \/ get_decomp_rule(p.ops[i].name)
                                         \/ has_decomp(p.ops[i])
                                         \/ i = 1}}

SeqsUpTo(S, n) == UNION {[1..k -> S] : k \in 0..n}

NoReport == [num_decomposed |-> 0, num_undecomposed |-> 0,
             decomposed |-> <<>>, undecomposed |-> <<>>]
NoProgram == [ops |-> <<>>, block |-> <<>>]
NoHist == [fn |-> "", pre |-> NoProgram, args |-> <<>>,
           lowered |-> {}, new_outs |-> EmptyMap,
           \* the running or last invocation of _decomp_bwd_op
           path |-> <<>>, pre_op |-> NoProgram, pre_map |-> EmptyMap,
           paired |-> FALSE, result |-> <<>>, outcome |-> "",
           attempts |-> <<>>]

Init ==
  \E sc \in Scenarios :
    /\ program = sc.program
    /\ param_mapping = sc.param_mapping
    /\ ext_grad_var_to_var = sc.grad_var_to_var
    /\ fwd_prim \in BOOLEAN
    /\ bwd_prim \in BOOLEAN
    /\ forward_blacklist \in {{}, {"pd_op.mean"}}
    /\ composite_ops_record = {}
    /\ vjp_rules = sc.vjp_rules
    /\ pc = "idle" /\ err = "" /\ ret = <<>>
    /\ src_vars = <<>> /\ blacklist = {} /\ whitelist = {}
    /\ orig_vars = EmptyMap /\ dst_vars = <<>>
    /\ ops_list = <<>> /\ idx = 0 /\ temp_op = 0
    /\ grad_var_to_var = EmptyMap
    /\ prev_state = [fwd |-> FALSE, bwd |-> FALSE]
    /\ bwd_ops = <<>> /\ report = NoReport
    /\ bwd_op = 0 /\ fwd_op = 0
    /\ fwd_locals = [fwd_inputs |-> <<>>, new_fwd_outputs |-> <<>>]
    /\ runs = 0
    /\ hist = NoHist

(***************************************************************************)
(* decompose (lines 147-231).                                              *)
(***************************************************************************)
\* a variant of op_filter in which the whitelist wins over the blacklist
op_filter_allow_first(name, bl, wl) ==
  IF bl # {} /\ wl # {} THEN name \in wl
  ELSE IF bl # {} /\ wl = {} THEN name \notin bl
  ELSE IF bl = {} /\ wl # {} THEN name \in wl
  ELSE TRUE

\* a variant of op_filter that lets every name through
op_filter_open(name, bl, wl) == TRUE

\* lines 193-202
op_filter(name, bl, wl) ==
  IF bl # {} /\ wl # {} THEN name \in wl /\ name \notin bl
  ELSE IF bl # {} /\ wl = {} THEN name \notin bl
  ELSE IF bl = {} /\ wl # {} THEN name \in wl
  ELSE TRUE

\* lines 204-210: dst_vars_dct[item] = idx, a later index replacing an earlier
dst_vars_dct(src) ==
  [v \in Range(src) |-> CHOOSE i \in DOMAIN src : src[i] = v /\ \A j \in DOMAIN src : src[j] = v => j <= i]

DriverVars == <<grad_var_to_var, prev_state, bwd_ops, report, bwd_op, fwd_op, fwd_locals>>
ConfigVars == <<forward_blacklist, vjp_rules, param_mapping, ext_grad_var_to_var>>
FwdLocals == <<src_vars, blacklist, whitelist, orig_vars, dst_vars, ops_list, idx, temp_op>>

\* a variant of fwd_prim_disabled that does not look at the flag
fwd_prim_disabled_ignored == FALSE

\* line 174: not core._is_fwd_prim_enabled()
fwd_prim_disabled == ~fwd_prim

\* lines 174-217: the call up to the loop of _decompose_subgraph
DecomposeCall(src, bl, wl) ==
  /\ pc \in {"idle", "returned"}
  /\ runs < MaxRuns
  /\ runs' = runs + 1
  /\ err' = ""
  /\ hist' = [NoHist EXCEPT !.fn = "decompose", !.pre = program,
                            !.args = <<src, bl, wl>>]
  /\ IF fwd_prim_disabled
     THEN /\ pc' = "returned"
          /\ ret' = src
          /\ UNCHANGED FwdLocals
     ELSE /\ pc' = "fwd_loop"
          /\ src_vars' = src
          /\ blacklist' = forward_blacklist \cup bl
          /\ whitelist' = wl
          /\ dst_vars' = [k \in DOMAIN src |-> None]
          /\ orig_vars' = dst_vars_dct(src)
          /\ ops_list' = program.block
          /\ idx' = 1
          /\ temp_op' = 0
          /\ UNCHANGED ret
  /\ UNCHANGED <<program, fwd_prim, bwd_prim, composite_ops_record>>
  /\ UNCHANGED ConfigVars
  /\ UNCHANGED DriverVars

\* lines 280-291: which uses of the original outputs move to the new ones
replaced_slots(rec) ==
  IF rec.name \in DOMAIN decomp_ops_contain_unused_output
  THEN DOMAIN rec.rtypes \ decomp_ops_contain_unused_output[rec.name]
  ELSE DOMAIN rec.rtypes

\* lines 294-301: the pending combine helper goes unless a result has one use
cleanup_temp_op(p, t) ==
  IF t # 0 /\ ~(\E k \in DOMAIN p.ops[t].rtypes : has_one_use(p, Val(t, k)))
  THEN remove_op(p, t)
  ELSE p

\* lines 259-265: where the replacement ops are built
insertion_point(p, list, i, t, o) ==
  LET prev == IF i = 1 THEN list[Len(list)] ELSE list[i - 1]
  IN IF t # 0 /\ p.ops[prev].name = combine_op_name THEN t ELSE o

\* lines 248-302: one iteration of the loop of _decompose_subgraph
DecomposeStep ==
  /\ pc = "fwd_loop"
  /\ idx <= Len(ops_list)
  /\ LET op      == ops_list[idx]
         rec     == program.ops[op]
         op_name == rec.name
         lower   == (get_decomp_rule(op_name) \/ has_decomp(rec))
                    /\ op_filter(op_name, blacklist, whitelist)
         temp1   == IF op_name = combine_op_name THEN op ELSE temp_op
     IN IF ~lower
        THEN /\ temp_op' = temp1
             /\ idx' = idx + 1
             /\ UNCHANGED <<program, composite_ops_record, pc, err, dst_vars, hist>>
        ELSE \E outcome \in RuleOutcomes(Len(rec.rtypes)) :
          LET point     == insertion_point(program, ops_list, idx, temp1, op)
              r         == call_rule(program, op, point, outcome)
              orig_outs == results(program, op)
              chk       == IF r.err # "" THEN CheckResult(r.err, dst_vars)
                           ELSE _check_op_results(r.p, op_name, orig_outs, r.new_outs,
                                                  orig_vars, dst_vars)
              p2        == replace_uses(r.p, orig_outs, r.new_outs, replaced_slots(rec))
              p3        == remove_op(p2, op)
          IN /\ composite_ops_record' = composite_ops_record \cup {op_name}
             /\ dst_vars' = chk.dst
             /\ IF chk.err # ""
                THEN /\ program' = r.p
                     /\ pc' = "raised"
                     /\ err' = chk.err
                     /\ temp_op' = temp1
                     /\ idx' = idx
                     /\ UNCHANGED hist
                ELSE /\ program' = cleanup_temp_op(p3, temp1)
                     /\ temp_op' = 0
                     /\ idx' = idx + 1
                     /\ hist' = [hist EXCEPT !.lowered = @ \cup {op},
                                              !.new_outs = MapPut(@, op, r.new_outs)]
                     /\ UNCHANGED <<pc, err>>
  /\ UNCHANGED <<fwd_prim, bwd_prim, ret, src_vars, blacklist, whitelist,
                 orig_vars, ops_list, runs>>
  /\ UNCHANGED ConfigVars
  /\ UNCHANGED DriverVars

\* lines 218-231: None entries fall back to the caller's Values
DecomposeReturn ==
  /\ pc = "fwd_loop"
  /\ idx > Len(ops_list)
  /\ dst_vars' = [k \in DOMAIN dst_vars |->
                    IF dst_vars[k] = None THEN src_vars[k] ELSE dst_vars[k]]
  /\ ret' = dst_vars'
  /\ pc' = "returned"
  /\ UNCHANGED <<program, fwd_prim, bwd_prim, composite_ops_record, err, src_vars,
                 blacklist, whitelist, orig_vars, ops_list, idx, temp_op, runs, hist>>
  /\ UNCHANGED ConfigVars
  /\ UNCHANGED DriverVars

\* lines 694-702
RECURSIVE bwd_ops_name_from(_, _, _)
bwd_ops_name_from(p, k, acc) ==
  IF k > Len(p.block) THEN acc
  ELSE LET name == p.ops[p.block[k]].name
       IN bwd_ops_name_from(p, k + 1,
            IF (endswith(name, "_grad") \/ endswith(name, "_grad_")) /\ ~Contains(acc, name)
            THEN Append(acc, name) ELSE acc)
_get_bwd_ops_name(p) == bwd_ops_name_from(p, 1, <<>>)

\* a forward-only caller's first call of decompose, on a program without
\* gradient ops
Decompose ==
  /\ runs = 0
  /\ _get_bwd_ops_name(program) = <<>>
  /\ \E src \in SeqsUpTo(Observable(program), MaxSrcLen),
        bl \in SUBSET FilterNames, wl \in SUBSET FilterNames :
       DecomposeCall(src, bl, wl)

\* decompose run again on its own result, with the same filters
DecomposeAgain ==
  /\ runs > 0
  /\ pc = "returned"
  /\ hist.fn = "decompose"
  /\ DecomposeCall(ret, hist.args[2], hist.args[3])

(***************************************************************************)
(* Backward Decomposer (lines 367-680).                                    *)
(***************************************************************************)
\* a variant of MapPop that leaves the entry in the map
MapPop_kept(m, k) == m

\* dict.pop(k), lines 467 and 553
MapPop(m, k) == [x \in DOMAIN m \ {k} |-> m[x]]
op_name_of(p, o) == p.ops[o].name

\* line 571
out_grad_name == {"out_grad", "Out_grad", "loss_grad"}

\* lines 569-579
RECURSIVE get_fwd_op_from(_, _, _, _)
get_fwd_op_from(p, b, map, k) ==
  IF k > Len(p.ops[b].in_names) THEN 0
  ELSE IF /\ p.ops[b].in_names[k] \in out_grad_name
          /\ p.ops[b].operands[k] \in DOMAIN map
       THEN get_defining_op(map[p.ops[b].operands[k]])
       ELSE get_fwd_op_from(p, b, map, k + 1)
_get_fwd_op(p, b, map) == get_fwd_op_from(p, b, map, 1)

\* lines 594-597: the inputs whose declared name holds no "_grad"
fwd_op_related(p, b) ==
  SelectSeq([k \in DOMAIN p.ops[b].in_names |-> k],
            LAMBDA k : ~contains_str(p.ops[b].in_names[k], "_grad"))

\* lines 600-608: the operands are looked at in order; line 604 reads the
\* name of the defining op, which a Value without one does not have
RECURSIVE check_operands(_, _, _, _)
check_operands(p, f, b, ks) ==
  IF ks = <<>> THEN "True"
  ELSE LET operand == operands(p, b)[Head(ks)]
       IN IF Contains(operands(p, f), operand) \/ Contains(results(p, f), operand)
          THEN check_operands(p, f, b, Tail(ks))
          ELSE IF get_defining_op(operand) = 0 THEN "AttributeError"
          ELSE IF op_name_of(p, get_defining_op(operand)) = "pd_op.full_int_array"
          THEN check_operands(p, f, b, Tail(ks))
          ELSE "False"

\* a variant of _check_op without the comparison of the names
_check_op_any_name(p, f, b) ==
  IF f = 0 THEN "False"
  ELSE check_operands(p, f, b, fwd_op_related(p, b))

\* lines 582-608: "True", "False" or the error raised
_check_op(p, f, b) ==
  IF f = 0 \/ op_name_of(p, f) \o "_grad" # op_name_of(p, b) THEN "False"
  ELSE check_operands(p, f, b, fwd_op_related(p, b))

\* lines 401-410: the positions of the gradient op's inputs cut as gradients
RECURSIVE cut_grads(_, _, _, _)
cut_grads(p, f, b, k) ==
  IF k > Len(operands(p, b)) THEN <<>>
  ELSE LET bwd_input == operands(p, b)[k]
       IN (IF ~(Contains(operands(p, f), bwd_input) \/ Contains(results(p, f), bwd_input))
           THEN <<k>> ELSE <<>>) \o cut_grads(p, f, b, k + 1)

\* lines 414-421
RECURSIVE fill_grads(_, _, _, _, _)
fill_grads(fwd_output_names, grad_outputs, grad_output_names, k, index) ==
  IF k > Len(fwd_output_names) THEN <<>>
  ELSE IF Contains(grad_output_names, fwd_output_names[k] \o "_grad")
       THEN <<grad_outputs[index]>>
            \o fill_grads(fwd_output_names, grad_outputs, grad_output_names, k + 1, index + 1)
       ELSE <<fake_op_result>>
            \o fill_grads(fwd_output_names, grad_outputs, grad_output_names, k + 1, index)

\* lines 388-423
_prepare_output_grads(p, f, b) ==
  LET bwd_inputs == operands(p, b)
      cut == cut_grads(p, f, b, 1)
      grad_outputs == [i \in DOMAIN cut |-> bwd_inputs[cut[i]]]
      grad_output_names ==
        [i \in DOMAIN cut |-> p.ops[b].in_names[IndexOf(bwd_inputs, bwd_inputs[cut[i]])]]
  IN fill_grads(p.ops[f].out_names, grad_outputs, grad_output_names, 1, 1)

\* lines 430-435
stop_gradients(p, b) == [k \in DOMAIN p.ops[b].rtypes |-> ~initialized(p, Val(b, k))]

\* core.call_vjp, a collaborator: with a composite vjp rule it appends
\* primitive ops and returns one gradient per slot (None where the slot is
\* stopped); without one it appends the gradient op itself once more.  extra
\* is the number of gradients it returns beyond the slots asked for.
call_vjp(p, f, b, grad_outputs, stop, has_rule, extra) ==
  LET n    == Len(p.ops)
      ins  == SelectSeq(operands(p, f) \o grad_outputs, LAMBDA v : initialized(p, v))
      tys  == [k \in 1..(Len(stop) + extra) |->
                 IF k <= Len(stop) THEN p.ops[b].rtypes[k] ELSE T0]
      p1   == IF has_rule
              THEN build_ops(p, 0, <<PrimOp("pd_op.cast", ins, <<T0>>),
                                     PrimOp("pd_op.pow", <<Val(n + 1, 1)>>, tys)>>)
              ELSE build_ops(p, 0, <<p.ops[b]>>)
      last == Len(p1.ops)
  IN [p |-> p1,
      grads |-> [k \in 1..(Len(stop) + (IF has_rule THEN extra ELSE 0)) |->
                   IF k <= Len(stop) /\ stop[k] THEN None ELSE Val(last, k)]]

\* lines 465-467 and 551-553, entry by entry
RECURSIVE migrate_keys(_, _, _, _)
migrate_keys(map, grad_inputs, res, k) ==
  IF k > Len(grad_inputs) THEN map
  ELSE IF grad_inputs[k] \in DOMAIN map
       THEN migrate_keys(MapPut(MapPop(map, grad_inputs[k]), res[k], map[grad_inputs[k]]),
                         grad_inputs, res, k + 1)
       ELSE migrate_keys(map, grad_inputs, res, k + 1)

\* lines 470-473 and 556-559: block.ops[i] moves to insert_idx, for each i
RECURSIVE move_appended(_, _, _, _)
move_appended(p, i, after, insert_idx) ==
  IF i > after THEN p
  ELSE move_appended(move_op(p, p.block[i], insert_idx), i + 1, after, insert_idx + 1)

\* a variant of undo_vjp that leaves the appended op in the block
undo_vjp_skipped(p) == p

\* lines 449-450: block.remove_op(block.ops[-1])
undo_vjp(p) == remove_op(p, p.block[Len(p.block)])

BwdResult(p, map, res, ok, e) == [p |-> p, map |-> map, res |-> res, ok |-> ok, err |-> e]

\* lines 425-479
_decomp_bwd_with_vjp(p, f, b, map, has_rule, extra) ==
  LET grad_outputs   == _prepare_output_grads(p, f, b)
      bwd_op_idx     == IndexOf(p.block, b)
      before_num_ops == Len(p.block)
      c              == call_vjp(p, f, b, grad_outputs, stop_gradients(p, b), has_rule, extra)
      after_num_ops  == Len(c.p.block)
      last           == c.p.block[after_num_ops]
  IN IF after_num_ops - before_num_ops = 1 /\ op_name_of(c.p, last) = op_name_of(p, b)
     THEN BwdResult(undo_vjp(c.p), map, <<>>, FALSE, "")
     ELSE LET res == [k \in DOMAIN c.grads |->
                        IF c.grads[k] # None /\ initialized(c.p, c.grads[k])
                        THEN c.grads[k] ELSE fake_op_result]
          IN IF Len(res) # Len(results(p, b))
             THEN BwdResult(c.p, map, <<>>, FALSE, "AssertionError")
             ELSE LET map1 == migrate_keys(map, results(p, b), res, 1)
                      p2   == move_appended(c.p, before_num_ops + 1, after_num_ops, bwd_op_idx)
                      p3   == replace_uses(p2, results(p, b), res, DOMAIN res)
                  IN BwdResult(remove_op(p3, b), map1, res, TRUE, "")

\* a variant of migrate_values that leaves the mapped values as they are
migrate_values_skipped(map, orig_outs, new_outs) == map

\* lines 355-358: the mapped values that are outputs of the forward op
migrate_values(map, orig_outs, new_outs) ==
  [g \in DOMAIN map |->
     IF Contains(orig_outs, map[g]) THEN new_outs[IndexOf(orig_outs, map[g])] ELSE map[g]]

\* lines 335-364, the flag test of line 330 being the caller's
_decomp_fwd_op(p, f, map, outcome) ==
  LET rec       == p.ops[f]
      orig_outs == results(p, f)
  IN IF ~(get_decomp_rule(rec.name) \/ has_decomp(rec))
     THEN BwdResult(p, map, orig_outs, FALSE, "")
     ELSE LET r   == call_rule(p, f, f, outcome)
              chk == IF r.err # "" THEN CheckResult(r.err, <<>>)
                     ELSE _check_op_results(r.p, rec.name, orig_outs, r.new_outs,
                                            EmptyMap, <<>>)
          IN IF chk.err # ""
             THEN BwdResult(r.p, map, <<>>, FALSE, chk.err)
             ELSE LET map1 == migrate_values(map, orig_outs, r.new_outs)
                      p2   == replace_uses(r.p, orig_outs, r.new_outs, DOMAIN orig_outs)
                  IN BwdResult(remove_op(p2, f), map1, r.new_outs, TRUE, "")

\* ir_backward.grad, a collaborator: appends primitive ops that compute, from
\* the seed gradients, one gradient per forward input
ir_backward_grad(p, fwd_outputs_, fwd_inputs_, grad_outputs) ==
  LET n   == Len(p.ops)
      ins == SelectSeq(grad_outputs \o fwd_outputs_ \o fwd_inputs_,
                       LAMBDA v : initialized(p, v))
      tys == [k \in DOMAIN fwd_inputs_ |-> TypeOf(p, fwd_inputs_[k])]
  IN [p |-> build_ops(p, 0, <<PrimOp("pd_op.cast", ins, <<T0>>),
                              PrimOp("pd_op.pow", <<Val(n + 1, 1)>>, tys)>>),
      grads |-> [k \in DOMAIN fwd_inputs_ |-> Val(n + 2, k)]]

\* the number of initialized results among the first k
RECURSIVE num_initialized(_, _, _)
num_initialized(p, b, k) ==
  IF k = 0 THEN 0
  ELSE num_initialized(p, b, k - 1) + (IF initialized(p, Val(b, k)) THEN 1 ELSE 0)

\* lines 512-566
_decomp_bwd_without_vjp(p, b, map, fwd_inputs, fwd_outputs_after_decompose) ==
  LET bwd_inputs   == operands(p, b)
      grad_inputs  == results(p, b)
      grad_outputs == SelectSeq(bwd_inputs, LAMBDA v :
                        ~(Contains(fwd_inputs, v)
                          \/ Contains(fwd_outputs_after_decompose, v)))
      init_inputs  == SelectSeq(grad_inputs, LAMBDA v : initialized(p, v))
  IN IF \E k \in DOMAIN grad_outputs : grad_outputs[k] \notin DOMAIN map
     THEN BwdResult(p, map, <<>>, FALSE, "KeyError")
     ELSE IF \E k \in DOMAIN init_inputs : init_inputs[k] \notin DOMAIN map
     THEN BwdResult(p, map, <<>>, FALSE, "KeyError")
     ELSE LET fwd_outputs_   == [k \in DOMAIN grad_outputs |-> map[grad_outputs[k]]]
              fwd_inputs_    == [k \in DOMAIN init_inputs |-> map[init_inputs[k]]]
              bwd_op_idx     == IndexOf(p.block, b)
              before_num_ops == Len(p.block)
              g              == ir_backward_grad(p, fwd_outputs_, fwd_inputs_, grad_outputs)
              after_num_ops  == Len(g.p.block)
              res  == [k \in DOMAIN grad_inputs |->
                         IF initialized(p, grad_inputs[k])
                         THEN g.grads[num_initialized(p, b, k)]
                         ELSE fake_op_result]
              map1 == migrate_keys(map, grad_inputs, res, 1)
              p2   == move_appended(g.p, before_num_ops + 1, after_num_ops, bwd_op_idx)
              p3   == replace_uses(p2, grad_inputs, res, DOMAIN res)
          IN BwdResult(remove_op(p3, b), map1, res, TRUE, "")

(***************************************************************************)
(* Program Driver (lines 683-804).                                         *)
(***************************************************************************)
\* a variant of select_values that always keeps the first Value
select_values_first(p, vals) == <<vals[1]>>

\* lines 718-729 and 731-742: the Values kept for one external name
select_values(p, vals) ==
  IF Len(vals) = 1 THEN <<vals[1]>>
  ELSE IF Len(vals) = 2 /\ op_name_of(p, get_defining_op(vals[2])) = "builtin.slice"
  THEN <<vals[2]>>
  ELSE IF endswith(op_name_of(p, get_defining_op(vals[Len(vals)])), "_")
  THEN <<vals[1]>>
  ELSE <<>>

\* lines 704-748, over the items of grad_var_to_var in the dict's order
RECURSIVE translate_items(_, _, _, _)
translate_items(p, pm, items, acc) ==
  IF items = <<>> THEN [err |-> "", map |-> acc]
  ELSE LET grad_var == Head(items)[1]
           var      == Head(items)[2]
       IN IF grad_var \in DOMAIN pm /\ var \in DOMAIN pm
          THEN IF Len(pm[grad_var]) = 1 /\ Len(pm[var]) = 1
               THEN translate_items(p, pm, Tail(items),
                                    MapPut(acc, pm[grad_var][1], pm[var][1]))
               ELSE LET new_grad_vars == select_values(p, pm[grad_var])
                        new_vars      == select_values(p, pm[var])
                    IN IF Len(new_grad_vars) = 1 /\ Len(new_vars) = 1
                       THEN translate_items(p, pm, Tail(items),
                                            MapPut(acc, new_grad_vars[1], new_vars[1]))
                       ELSE [err |-> "AssertionError", map |-> acc]
          ELSE translate_items(p, pm, Tail(items), acc)
_translate_gradvartovar_to_pir(p, pm, g2v) == translate_items(p, pm, g2v, EmptyMap)

\* lines 777-784
account(rep, name, has_decomposed) ==
  IF has_decomposed
  THEN [rep EXCEPT !.num_decomposed = @ + 1,
                   !.decomposed = IF Contains(@, name) THEN @ ELSE Append(@, name)]
  ELSE [rep EXCEPT !.num_undecomposed = @ + 1,
                   !.undecomposed = IF Contains(@, name) THEN @ ELSE Append(@, name)]

\* every Value of the external mapping is a Value of the program
MappingLive ==
  \A n \in DOMAIN param_mapping : \A k \in DOMAIN param_mapping[n] :
    InBlock(program, param_mapping[n][k].op)

\* a variant of prim_enabled_for_pass that keeps the flag as it was
prim_enabled_for_pass_kept(prev) == prev

\* lines 752-753: core._set_prim_forward_enabled(True) and its backward twin
prim_enabled_for_pass(prev) == TRUE

\* lines 750-768: the call up to the loop over the ops
DecomposePirProgram ==
  /\ pc \in {"idle", "returned"}
  /\ runs < MaxRuns
  /\ hist.fn # "decompose"
  /\ MappingLive
  /\ runs' = runs + 1
  /\ prev_state' = [fwd |-> fwd_prim, bwd |-> bwd_prim]
  /\ fwd_prim' = prim_enabled_for_pass(fwd_prim)
  /\ bwd_prim' = prim_enabled_for_pass(bwd_prim)
  /\ hist' = [NoHist EXCEPT !.fn = "decompose_pir_program", !.pre = program]
  /\ LET t == _translate_gradvartovar_to_pir(program, param_mapping, ext_grad_var_to_var)
     IN IF t.err # ""
        THEN /\ pc' = "raised"
             /\ err' = t.err
             /\ UNCHANGED <<grad_var_to_var, ops_list, idx, bwd_ops, report>>
        ELSE /\ pc' = "bwd_loop"
             /\ err' = ""
             /\ grad_var_to_var' = t.map
             /\ ops_list' = program.block
             /\ idx' = 1
             /\ bwd_ops' = _get_bwd_ops_name(program)
             /\ report' = NoReport
  /\ UNCHANGED <<program, composite_ops_record, ret, src_vars, blacklist, whitelist,
                 orig_vars, dst_vars, temp_op, bwd_op, fwd_op, fwd_locals>>
  /\ UNCHANGED ConfigVars

BwdFrame == <<fwd_prim, bwd_prim, composite_ops_record, ret, src_vars, blacklist,
              whitelist, orig_vars, dst_vars, ops_list, temp_op, prev_state, bwd_ops,
              runs>>

\* line 771: an op that is no gradient op is passed over
DriverSkip ==
  /\ pc = "bwd_loop"
  /\ idx <= Len(ops_list)
  /\ ~Contains(bwd_ops, op_name_of(program, ops_list[idx]))
  /\ idx' = idx + 1
  /\ UNCHANGED <<program, grad_var_to_var, report, pc, err, bwd_op, fwd_op, fwd_locals, hist>>
  /\ UNCHANGED BwdFrame
  /\ UNCHANGED ConfigVars

\* _decomp_bwd_op returns to the loop: lines 777-784
BackToLoop(name, has_decomposed, res) ==
  /\ report' = account(report, name, has_decomposed)
  /\ idx' = idx + 1
  /\ pc' = "bwd_loop"
  /\ bwd_op' = 0
  /\ fwd_op' = 0
  /\ err' = ""

Leave(state, has_decomposed, res) ==
  [hist EXCEPT !.path = Append(@, state),
               !.outcome = IF has_decomposed THEN "decomposed" ELSE "undecomposed",
               !.result = res]

Raise(e) ==
  /\ pc' = "raised"
  /\ err' = e
  /\ UNCHANGED <<report, idx, bwd_op, fwd_op>>

\* a variant of bwd_prim_disabled that does not look at the flag
bwd_prim_disabled_ignored == FALSE

\* line 635: not core._is_bwd_prim_enabled()
bwd_prim_disabled == ~bwd_prim

\* lines 772 and 635-638: START
DecompBwdOp ==
  /\ pc = "bwd_loop"
  /\ idx <= Len(ops_list)
  /\ Contains(bwd_ops, op_name_of(program, ops_list[idx]))
  /\ hist' = [hist EXCEPT !.path = <<"START">>, !.pre_op = program,
                          !.pre_map = grad_var_to_var, !.paired = FALSE,
                          !.result = <<>>, !.outcome = "",
                          !.attempts = Append(@, ops_list[idx])]
  /\ IF bwd_prim_disabled
     THEN /\ pc' = "raised"
          /\ err' = "RuntimeError"
          /\ UNCHANGED bwd_op
     ELSE /\ pc' = "FIND_FWD"
          /\ bwd_op' = ops_list[idx]
          /\ UNCHANGED err
  /\ UNCHANGED <<program, grad_var_to_var, report, idx, fwd_op, fwd_locals>>
  /\ UNCHANGED BwdFrame
  /\ UNCHANGED ConfigVars

\* lines 641-643: FIND_FWD
FindFwd ==
  /\ pc = "FIND_FWD"
  /\ LET f == _get_fwd_op(program, bwd_op, grad_var_to_var)
         ok == _check_op(program, f, bwd_op)
     IN IF ok \notin {"True", "False"}
        THEN /\ Raise(ok)
             /\ hist' = [hist EXCEPT !.path = Append(@, "FIND_FWD")]
        ELSE IF ok = "False"
        THEN /\ BackToLoop(op_name_of(program, bwd_op), FALSE, <<>>)
             /\ hist' = Leave("FIND_FWD", FALSE, <<>>)
        ELSE /\ pc' = "TRY_VJP"
             /\ fwd_op' = f
             /\ hist' = [hist EXCEPT !.path = Append(@, "FIND_FWD"), !.paired = TRUE]
             /\ UNCHANGED <<report, idx, bwd_op, err>>
  /\ UNCHANGED <<program, grad_var_to_var, fwd_locals>>
  /\ UNCHANGED BwdFrame
  /\ UNCHANGED ConfigVars

\* lines 646-654: TRY_VJP
TryVjp ==
  /\ pc = "TRY_VJP"
  /\ \E extra \in 0..1 :
       LET r == _decomp_bwd_with_vjp(program, fwd_op, bwd_op, grad_var_to_var,
                                     op_name_of(program, fwd_op) \in vjp_rules, extra)
       IN /\ program' = r.p
          /\ grad_var_to_var' = r.map
          /\ IF r.err # ""
             THEN /\ Raise(r.err)
                  /\ hist' = [hist EXCEPT !.path = Append(@, "TRY_VJP")]
             ELSE IF r.ok
             THEN /\ BackToLoop(op_name_of(program, bwd_op), TRUE, r.res)
                  /\ hist' = Leave("TRY_VJP", TRUE, r.res)
             ELSE /\ pc' = "DECOMP_FWD"
                  /\ hist' = [hist EXCEPT !.path = Append(@, "TRY_VJP")]
                  /\ UNCHANGED <<report, idx, bwd_op, fwd_op, err>>
  /\ UNCHANGED fwd_locals
  /\ UNCHANGED BwdFrame
  /\ UNCHANGED ConfigVars

\* lines 656-667 and 330-333: DECOMP_FWD
DecompFwd ==
  /\ pc = "DECOMP_FWD"
  /\ IF ~fwd_prim
     THEN /\ Raise("RuntimeError")
          /\ hist' = [hist EXCEPT !.path = Append(@, "DECOMP_FWD")]
          /\ UNCHANGED <<program, grad_var_to_var, fwd_locals, composite_ops_record>>
     ELSE \E outcome \in RuleOutcomes(Len(program.ops[fwd_op].rtypes)) :
       LET r == _decomp_fwd_op(program, fwd_op, grad_var_to_var, outcome)
       IN /\ program' = r.p
          /\ grad_var_to_var' = r.map
          /\ fwd_locals' = [fwd_inputs |-> operands(program, fwd_op),
                            new_fwd_outputs |-> r.res]
          /\ IF r.err # ""
             THEN /\ Raise(r.err)
                  /\ hist' = [hist EXCEPT !.path = Append(@, "DECOMP_FWD")]
             ELSE IF ~r.ok
             THEN /\ BackToLoop(op_name_of(program, bwd_op), FALSE, <<>>)
                  /\ hist' = Leave("DECOMP_FWD", FALSE, <<>>)
             ELSE /\ pc' = "TRY_GRAD"
                  /\ hist' = [hist EXCEPT !.path = Append(@, "DECOMP_FWD")]
                  /\ UNCHANGED <<report, idx, bwd_op, fwd_op, err>>
  /\ UNCHANGED BwdFrame
  /\ UNCHANGED ConfigVars

\* lines 667-680: TRY_GRAD
TryGrad ==
  /\ pc = "TRY_GRAD"
  /\ LET r == _decomp_bwd_without_vjp(program, bwd_op, grad_var_to_var,
                                      fwd_locals.fwd_inputs, fwd_locals.new_fwd_outputs)
     IN /\ program' = r.p
        /\ grad_var_to_var' = r.map
        /\ IF r.err # ""
           THEN /\ Raise(r.err)
                /\ hist' = [hist EXCEPT !.path = Append(@, "TRY_GRAD")]
           ELSE /\ BackToLoop(op_name_of(program, bwd_op), r.ok, r.res)
                /\ hist' = Leave("TRY_GRAD", r.ok, r.res)
  /\ UNCHANGED fwd_locals
  /\ UNCHANGED BwdFrame
  /\ UNCHANGED ConfigVars

\* lines 786-804: the report is logged and the flags are put back
DriverReturn ==
  /\ pc = "bwd_loop"
  /\ idx > Len(ops_list)
  /\ fwd_prim' = prev_state.fwd
  /\ bwd_prim' = prev_state.bwd
  /\ pc' = "returned"
  /\ ret' = <<>>
  /\ UNCHANGED <<program, composite_ops_record, err, src_vars, blacklist, whitelist,
                 orig_vars, dst_vars, ops_list, idx, temp_op, grad_var_to_var,
                 prev_state, bwd_ops, report, bwd_op, fwd_op, fwd_locals, runs, hist>>
  /\ UNCHANGED ConfigVars

Next ==
  \/ Decompose
  \/ DecomposeAgain
  \/ DecomposeStep
  \/ DecomposeReturn
  \/ DecomposePirProgram
  \/ DriverSkip
  \/ DecompBwdOp
  \/ FindFwd
  \/ TryVjp
  \/ DecompFwd
  \/ TryGrad
  \/ DriverReturn

Spec == Init /\ [][Next]_vars

(***************************************************************************)
(* The procedures of the pass invoked one by one: _check_op_results,       *)
(* _decomp_bwd_op and _decomp_bwd_without_vjp are module-level functions,  *)
(* and a caller that holds a block and a VariableMap can call each of them *)
(* with whatever flags are set at that time.                               *)
(***************************************************************************)
IsGradOp(p, o) == endswith(p.ops[o].name, "_grad") \/ endswith(p.ops[o].name, "_grad_")

\* the outputs a rule may hand to the validator for the op: per slot a
\* Value of the slot's type, or None
NewOutsFor(p, o) ==
  {f \in [DOMAIN p.ops[o].rtypes -> {None, Val(1, 1)}] :
     \A k \in DOMAIN f : f[k] # None => TypeOf(p, f[k]) = p.ops[o].rtypes[k]}

DirectFrame == <<fwd_prim, bwd_prim, composite_ops_record, ret, src_vars, blacklist,
                 whitelist, orig_vars, dst_vars, ops_list, temp_op, prev_state,
                 bwd_ops, report, idx, fwd_op, fwd_locals>>

\* lines 91-144, called as lines 350 calls it: without orig_vars and dst_vars
CallCheckOpResults ==
  /\ pc = "idle"
  /\ runs = 0
  /\ \E o \in Range(program.block) : \E new_outs \in NewOutsFor(program, o) :
       LET op_name   == op_name_of(program, o)
           orig_outs == results(program, o)
           chk       == _check_op_results(program, op_name, orig_outs, new_outs,
                                          EmptyMap, <<>>)
       IN /\ err' = chk.err
          /\ pc' = IF chk.err = "" THEN "returned" ELSE "raised"
          /\ hist' = [NoHist EXCEPT !.fn = "_check_op_results", !.pre = program,
                                    !.args = <<op_name, orig_outs, new_outs>>]
  /\ runs' = 1
  /\ UNCHANGED <<program, grad_var_to_var, bwd_op>>
  /\ UNCHANGED DirectFrame
  /\ UNCHANGED ConfigVars

\* lines 611-638: _decomp_bwd_op called on a gradient op of the block, with
\* the VariableMap of the block
CallDecompBwdOp ==
  /\ pc = "idle"
  /\ runs = 0
  /\ \E b \in Range(program.block) :
       LET t == _translate_gradvartovar_to_pir(program, param_mapping, ext_grad_var_to_var)
       IN /\ IsGradOp(program, b)
          /\ t.err = ""
          /\ grad_var_to_var' = t.map
          /\ hist' = [NoHist EXCEPT !.fn = "_decomp_bwd_op", !.pre = program,
                                    !.path = <<"START">>, !.pre_op = program,
                                    !.pre_map = t.map, !.attempts = <<b>>]
          /\ IF bwd_prim_disabled
             THEN /\ pc' = "raised"
                  /\ err' = "RuntimeError"
                  /\ UNCHANGED bwd_op
             ELSE /\ pc' = "FIND_FWD"
                  /\ bwd_op' = b
                  /\ UNCHANGED err
  /\ runs' = 1
  /\ UNCHANGED program
  /\ UNCHANGED DirectFrame
  /\ UNCHANGED ConfigVars

\* lines 507-566: given says whether fwd_outputs_after_decompose is a tuple
\* (outs) or None
decomp_bwd_without_vjp_entry(p, b, map, fwd_inputs, given, outs) ==
  IF ~given
  THEN BwdResult(p, map, <<>>, FALSE, "RuntimeError")
  ELSE _decomp_bwd_without_vjp(p, b, map, fwd_inputs, outs)

\* lines 482-566: _decomp_bwd_without_vjp called on a gradient op that has
\* a forward op, with the operands of that op and with its outputs or None
CallDecompBwdWithoutVjp ==
  /\ pc = "idle"
  /\ runs = 0
  /\ \E b \in Range(program.block), given \in BOOLEAN :
       LET t == _translate_gradvartovar_to_pir(program, param_mapping, ext_grad_var_to_var)
           f == IF t.err = "" THEN _get_fwd_op(program, b, t.map) ELSE 0
           r == decomp_bwd_without_vjp_entry(program, b, t.map, operands(program, f),
                                             given, results(program, f))
       IN /\ IsGradOp(program, b)
          /\ t.err = ""
          /\ f # 0
          /\ _check_op(program, f, b) = "True"
          /\ program' = r.p
          /\ grad_var_to_var' = r.map
          /\ err' = r.err
          /\ pc' = IF r.err = "" THEN "returned" ELSE "raised"
          /\ hist' = [NoHist EXCEPT !.fn = "_decomp_bwd_without_vjp", !.pre = program,
                                    !.args = <<given>>, !.pre_op = program,
                                    !.pre_map = t.map, !.attempts = <<b>>,
                                    !.result = r.res,
                                    !.outcome = IF r.err # "" THEN ""
                                                ELSE IF r.ok THEN "decomposed"
                                                ELSE "undecomposed"]
  /\ runs' = 1
  /\ UNCHANGED bwd_op
  /\ UNCHANGED DirectFrame
  /\ UNCHANGED ConfigVars

DirectNext ==
  \/ CallCheckOpResults
  \/ CallDecompBwdOp
  \/ CallDecompBwdWithoutVjp
  \/ FindFwd
  \/ TryVjp
  \/ DecompFwd
  \/ TryGrad

DirectSpec == Init /\ [][DirectNext]_vars

(***************************************************************************)
(* Properties.  hist.pre is the program at the entry of the running call,  *)
(* hist.pre_op and hist.pre_map are the program and the VariableMap at the *)
(* entry of the running invocation of _decomp_bwd_op.                      *)
(***************************************************************************)
InDecompose == hist.fn = "decompose"
InDriver == hist.fn = "decompose_pir_program"
\* the ops the running call has removed from the block
RemovedOps == Range(hist.pre.block) \ Range(program.block)
\* the op the running or last invocation of _decomp_bwd_op works on
LastBwdOp == hist.attempts[Len(hist.attempts)]
\* that invocation has returned
BwdOpCompleted == InDriver /\ hist.outcome # ""
\* the ops that invocation has removed
RemovedByBwdOp == Range(hist.pre_op.block) \ Range(program.block)
\* the ops of the block that read a result of op o
Consumers(p, o) ==
  {c \in Range(p.block) : \E k \in DOMAIN p.ops[c].operands : p.ops[c].operands[k].op = o}

\* C1: on every exit of decompose_pir_program, by return or by an error, both
\* flags hold the values they had immediately before the call.
C1_FlagsRestoredOnEveryExit ==
  (InDriver /\ pc \in {"returned", "raised"}) =>
    (fwd_prim = prev_state.fwd /\ bwd_prim = prev_state.bwd)

\* C2: decompose returns a list as long as src_vars; entry i is the
\* replacement of src_vars[i] when its producer was rewritten, whatever the
\* result position, and src_vars[i] otherwise; no entry is a result of a
\* removed op.  Stated for a src_vars without a repeated Value and for the
\* results that have a replacement: a result the decomposition leaves unused
\* has none.
C2_ReturnedListResolves ==
  (/\ InDecompose /\ pc = "returned"
   /\ \A i, j \in DOMAIN hist.args[1] : hist.args[1][i] = hist.args[1][j] => i = j) =>
    /\ Len(ret) = Len(hist.args[1])
    /\ \A i \in DOMAIN ret :
         LET v == hist.args[1][i]
         IN /\ v.op \notin hist.lowered => ret[i] = v
            /\ (v.op \in hist.lowered /\ hist.new_outs[v.op][v.idx] # None) =>
                 /\ ret[i] = hist.new_outs[v.op][v.idx]
                 /\ ret[i].op \notin RemovedOps

\* C3: after a forward pass that completes without error, the replacement
\* outputs of every rewritten op agree with the original ones in count, and
\* in dtype and shape at every position where both are present.
C3_OutputsAgreeAtEveryPosition ==
  (InDecompose /\ pc = "returned") =>
    \A o \in hist.lowered :
      /\ Len(hist.new_outs[o]) = Len(program.ops[o].rtypes)
      /\ \A k \in DOMAIN hist.new_outs[o] :
           hist.new_outs[o][k] # None =>
             TypeOf(program, hist.new_outs[o][k]) = program.ops[o].rtypes[k]

\* C4: in every state, every use-edge of every op of the block points to a
\* Value whose producer is in the block, or to an Absent placeholder.
C4_NoDanglingUse ==
  \A o \in Range(program.block) : \A k \in DOMAIN program.ops[o].operands :
    LET v == program.ops[o].operands[k]
    IN v.op > 0 => InBlock(program, v.op)

\* C5: after a completed invocation of _decomp_bwd_op the VariableMap has no
\* key and no mapped value that is a result of an op the invocation removed.
C5_MapHoldsNoRemovedValue ==
  BwdOpCompleted =>
    \A g \in DOMAIN grad_var_to_var :
      /\ g.op \notin RemovedByBwdOp
      /\ grad_var_to_var[g].op \notin RemovedByBwdOp

\* C6: after a forward pass, a combine helper whose results were consumed
\* only by rewritten ops is out of the block, and a combine helper that
\* feeds a surviving consumer is in the block.
C6_HelperCleanup ==
  (InDecompose /\ pc = "returned") =>
    \A c \in Range(hist.pre.block) :
      hist.pre.ops[c].name = combine_op_name =>
        LET cons == Consumers(hist.pre, c)
        IN /\ (cons # {} /\ cons \subseteq hist.lowered) => ~InBlock(program, c)
           /\ (cons \ hist.lowered # {}) => InBlock(program, c)

\* C7: a second run of decompose on the result of a first run, with the same
\* blacklist and whitelist, rewrites no op, leaves the block's op sequence
\* and use-edges as they are and returns the observed values it was given.
C7_SecondRunRewritesNothing ==
  (InDecompose /\ runs >= 2) =>
    /\ hist.lowered = {}
    /\ program = hist.pre
    /\ pc # "raised"
    /\ pc = "returned" => ret = hist.args[1]

OutGradInputs(p, b, map) ==
  {k \in DOMAIN p.ops[b].in_names :
     /\ p.ops[b].in_names[k] \in {"out_grad", "Out_grad", "loss_grad"}
     /\ p.ops[b].operands[k] \in DOMAIN map}
Candidate(p, b, map) ==
  IF OutGradInputs(p, b, map) = {} THEN 0
  ELSE LET k == CHOOSE i \in OutGradInputs(p, b, map) :
                  \A j \in OutGradInputs(p, b, map) : i <= j
       IN map[p.ops[b].operands[k]].op
PairingHolds(p, b, map) ==
  LET f == Candidate(p, b, map)
  IN /\ f > 0
     /\ p.ops[f].name \o "_grad" = p.ops[b].name
     /\ \A k \in DOMAIN p.ops[b].operands :
          ~contains_str(p.ops[b].in_names[k], "_grad") =>
            LET v == p.ops[b].operands[k]
            IN \/ v \in Range(p.ops[f].operands)
               \/ v.op = f
               \/ (v.op > 0 /\ p.ops[v.op].name = "pd_op.full_int_array")

\* C9: the pairing check accepts a gradient op iff the candidate's name plus
\* "_grad" is the gradient op's name and every input not named as a gradient
\* is an operand or a result of the candidate or comes from an index-array
\* op; without an output-gradient input that is a key of the VariableMap the
\* gradient op is not matched.
C9_PairingIff ==
  (InDriver /\ Len(hist.path) >= 2) =>
    /\ hist.paired <=> PairingHolds(hist.pre_op, LastBwdOp, hist.pre_map)
    /\ OutGradInputs(hist.pre_op, LastBwdOp, hist.pre_map) = {} => ~hist.paired

\* the invocation of _decomp_bwd_op is over, by a return or by an error
BwdOpOver == InDriver /\ hist.path # <<>> /\ pc \in {"bwd_loop", "raised"}
\* its forward op has no vjp rule and has a decomposition rule
FallbackCase ==
  LET f == Candidate(hist.pre_op, LastBwdOp, hist.pre_map)
  IN /\ hist.paired
     /\ hist.pre_op.ops[f].name \notin vjp_rules
     /\ \/ get_decomp_rule(hist.pre_op.ops[f].name)
        \/ has_decomp(hist.pre_op.ops[f])
\* the replacement of the forward op was turned down by the validator
RuleRejected == pc = "raised" /\ hist.path[Len(hist.path)] = "DECOMP_FWD"

\* C10: a paired gradient op whose forward op has no vjp rule and has a
\* decomposition rule goes through DECOMP_FWD and TRY_GRAD and ends
\* decomposed, with one entry per result slot: a Value for an initialized
\* slot, an Absent placeholder for an uninitialized one.
C10_FallbackCoverage ==
  (BwdOpOver /\ FallbackCase /\ ~RuleRejected) =>
    /\ hist.path = <<"START", "FIND_FWD", "TRY_VJP", "DECOMP_FWD", "TRY_GRAD">>
    /\ hist.outcome = "decomposed"
    /\ Len(hist.result) = Len(hist.pre_op.ops[LastBwdOp].rtypes)
    /\ \A k \in DOMAIN hist.result :
         IF hist.pre_op.ops[LastBwdOp].rinit[k]
         THEN initialized(program, hist.result[k])
         ELSE hist.result[k] = fake_op_result

\* C5 happens: an invocation on the fallback path has removed the forward op
\* and the gradient op, and the VariableMap has a key and a mapped value
\* among the Values built in their place.
C5_Witness ==
  /\ BwdOpCompleted
  /\ hist.outcome = "decomposed"
  /\ hist.path[Len(hist.path)] = "TRY_GRAD"
  /\ Cardinality(RemovedByBwdOp) = 2
  /\ \E g \in DOMAIN grad_var_to_var :
       /\ g.op > Len(hist.pre_op.ops)
       /\ \E h \in DOMAIN grad_var_to_var : grad_var_to_var[h].op > Len(hist.pre_op.ops)

\* C7 happens: a second run has returned on a program from which the first
\* run removed an op, with a Value to observe.
C7_Witness ==
  /\ InDecompose /\ runs >= 2 /\ pc = "returned"
  /\ fwd_prim
  /\ ret # <<>>
  /\ \E o \in DOMAIN hist.pre.ops : ~InBlock(hist.pre, o)

C9_Witness ==
  /\ InDriver /\ Len(hist.path) >= 2 /\ hist.paired
  /\ \E k \in DOMAIN hist.pre_op.ops[LastBwdOp].operands :
       LET v == hist.pre_op.ops[LastBwdOp].operands[k]
           f == Candidate(hist.pre_op, LastBwdOp, hist.pre_map)
       IN /\ v.op > 0
          /\ hist.pre_op.ops[v.op].name = "pd_op.full_int_array"
          /\ v \notin Range(hist.pre_op.ops[f].operands)

\* C11: when _decomp_bwd_op reports the gradient op as not decomposed, the
\* block's op sequence, every op's operands (and so every use) and every
\* entry of the VariableMap are as they were when the invocation started.
C11_UndecomposedLeavesNoTrace ==
  (InDriver /\ hist.outcome = "undecomposed") =>
    /\ program.block = hist.pre_op.block
    /\ \A o \in Range(program.block) : program.ops[o] = hist.pre_op.ops[o]
    /\ grad_var_to_var = hist.pre_map

\* C11 happens: an invocation ended not decomposed after the vjp attempt
\* had appended an op and the forward op was found to have no rule.
C11_Witness ==
  /\ InDriver /\ hist.outcome = "undecomposed"
  /\ hist.path = <<"START", "FIND_FWD", "TRY_VJP", "DECOMP_FWD">>
  /\ Len(program.ops) > Len(hist.pre_op.ops)
  /\ InBlock(program, LastBwdOp)

\* the gradient ops of block p, in program order
GradOps(p) ==
  SelectSeq(p.block, LAMBDA o : \/ endswith(p.ops[o].name, "_grad")
                                \/ endswith(p.ops[o].name, "_grad_"))
NoRepeat(s) == \A i, j \in DOMAIN s : s[i] = s[j] => i = j
\* the driver's call is over and was not stopped by a rejected replacement or
\* a failed translation
DriverOver ==
  InDriver /\ pc \in {"returned", "raised"} /\ err \in {"", "KeyError"}

\* C12: the pass is not aborted over a gradient op it cannot decompose: when
\* the call is over it has attempted every gradient op that was in the block
\* at its start exactly once, in program order, and no other op; the two
\* counts add up to the number of attempts and no name is reported twice.
C12_EveryGradientOpAttempted ==
  DriverOver =>
    /\ pc = "returned"
    /\ hist.attempts = GradOps(hist.pre)
    /\ report.num_decomposed + report.num_undecomposed = Len(hist.attempts)
    /\ NoRepeat(report.decomposed) /\ NoRepeat(report.undecomposed)

\* C13: the step in which the validator turns a replacement down, in the
\* forward pass or in DECOMP_FWD, ends the call by the error and leaves the
\* block as it was before the rewrite was tried: the same ops in the same
\* order, with the same operands, and none of the ops built for the
\* replacement.
C13_RejectedRewriteLeavesNoTrace ==
  [][(/\ pc \in {"fwd_loop", "DECOMP_FWD"}
      /\ pc' = "raised"
      /\ err' \in {"AssertionError", "ValueError"}) =>
       (/\ program'.block = program.block
        /\ \A o \in Range(program.block) : program'.ops[o] = program.ops[o])]_vars

\* C14: a call of decompose made while the forward flag is disabled returns
\* at once the observed values it was given, in their order, and changes
\* neither the program nor the record of the decomposed names.
C14_PassThroughWhenDisabled ==
  [][(~fwd_prim /\ hist'.fn = "decompose" /\ runs' = runs + 1) =>
       (/\ pc' = "returned"
        /\ ret' = hist'.args[1]
        /\ program' = program
        /\ composite_ops_record' = composite_ops_record)]_vars

\* C14 happens: a call with the flag disabled has returned, with Values to
\* observe, on a program that holds an op with a rule.
C14_Witness ==
  /\ InDecompose /\ ~fwd_prim /\ pc = "returned"
  /\ ret # <<>>
  /\ \E o \in Range(program.block) : get_decomp_rule(program.ops[o].name)

\* C15: while the driver's loop runs, and so in every invocation of
\* _decomp_bwd_op and _decomp_fwd_op it makes, both flags are enabled,
\* whatever they were before the call; the RuntimeError either raises for a
\* disabled flag does not occur.
C15_FlagsForcedDuringPass ==
  InDriver =>
    /\ pc \in {"bwd_loop", "FIND_FWD", "TRY_VJP", "DECOMP_FWD", "TRY_GRAD"} =>
         (fwd_prim /\ bwd_prim)
    /\ err # "RuntimeError"

\* C15 happens: a call made with both flags disabled has rewritten a
\* gradient op through the forward decomposition.
C15_Witness ==
  /\ InDriver
  /\ ~prev_state.fwd /\ ~prev_state.bwd
  /\ hist.outcome = "decomposed"
  /\ hist.path[Len(hist.path)] = "TRY_GRAD"
  /\ ~InBlock(program, LastBwdOp)

\* the test of C16 on the op o of the program the call started from, with B
\* the caller's blacklist united with the configured one and W the whitelist
Eligible(o) ==
  LET name == hist.pre.ops[o].name
      B == forward_blacklist \cup hist.args[2]
      W == hist.args[3]
  IN /\ name \in RegisteredRules \cup NativeDecomp
     /\ CASE B # {} /\ W # {} -> name \in W /\ name \notin B
          [] B # {} /\ W = {} -> name \notin B
          [] B = {} /\ W # {} -> name \in W
          [] OTHER -> TRUE
\* a call of decompose with the forward flag enabled has returned
ForwardPassDone == InDecompose /\ fwd_prim /\ pc = "returned"

IsPrefix(s, t) == Len(s) <= Len(t) /\ SubSeq(t, 1, Len(s)) = s

StateOrder == <<"START", "FIND_FWD", "TRY_VJP", "DECOMP_FWD", "TRY_GRAD">>

SameOpsInBlock(p, q) ==
  /\ p.block = q.block
  /\ \A o \in Range(q.block) : p.ops[o] = q.ops[o]

\* C17: the states of one gradient op are visited in the order START,
\* FIND_FWD, TRY_VJP, DECOMP_FWD, TRY_GRAD, and the visit may end after any
\* of them from FIND_FWD on.  When the vjp attempt succeeded the visit ends
\* at TRY_VJP and the forward op is in the block as it was.  DECOMP_FWD is
\* entered with the block as it was before the vjp attempt (the op the
\* attempt appended is gone).  TRY_GRAD is entered only with the forward op
\* decomposed: it has left the block and its new outputs are at hand.
C17_StateOrdering ==
  InDriver =>
    /\ IsPrefix(hist.path, StateOrder)
    /\ (hist.outcome = "decomposed" /\ ~Contains(hist.path, "TRY_GRAD")) =>
         /\ hist.path = SubSeq(StateOrder, 1, 3)
         /\ LET f == Candidate(hist.pre_op, LastBwdOp, hist.pre_map)
            IN /\ InBlock(program, f)
               /\ program.ops[f] = hist.pre_op.ops[f]
    /\ pc = "DECOMP_FWD" =>
         /\ hist.path = SubSeq(StateOrder, 1, 3)
         /\ SameOpsInBlock(program, hist.pre_op)
    /\ pc = "TRY_GRAD" =>
         /\ hist.path = SubSeq(StateOrder, 1, 4)
         /\ ~InBlock(program, fwd_op)
         /\ InBlock(hist.pre_op, fwd_op)
         /\ fwd_locals.new_fwd_outputs # <<>>

\* The vjp attempt appended an op that was taken out again, the forward op
\* was decomposed, and reverse-mode differentiation is about to run.
C17_Witness ==
  /\ InDriver
  /\ pc = "TRY_GRAD"
  /\ hist.path = SubSeq(StateOrder, 1, 4)
  /\ ~InBlock(program, fwd_op)
  /\ Len(program.ops) > Len(hist.pre_op.ops) + 1
  /\ report.num_decomposed > 0

\* a step that completes a successful backward rewrite, on either path
BwdRewriteStep ==
  /\ InDriver
  /\ pc \in {"TRY_VJP", "TRY_GRAD"}
  /\ pc' = "bwd_loop"
  /\ hist'.outcome = "decomposed"

\* the ops the step has created, in the order of their creation
CreatedBy(p, q) == [i \in 1..(Len(q.ops) - Len(p.ops)) |-> Len(p.ops) + i]

\* C18: a successful backward rewrite of the gradient op at index p, having
\* appended k ops, leaves them at p..p+k-1 in the order of their appending,
\* the gradient op is out of the block, the other ops keep their relative
\* order, and every use of a result of the gradient op has become a use of
\* the new result of the same slot.
C18_Relocation ==
  [][BwdRewriteStep =>
      LET p   == IndexOf(program.block, bwd_op)
          new == CreatedBy(program, program')
      IN /\ program'.block = SubSeq(program.block, 1, p - 1) \o new
                               \o SubSeq(program.block, p + 1, Len(program.block))
         /\ \A o \in Range(program'.block) : \A j \in DOMAIN program'.ops[o].operands :
              LET v == program'.ops[o].operands[j]
              IN IF o <= Len(program.ops) /\ program.ops[o].operands[j].op = bwd_op
                 THEN v = hist'.result[program.ops[o].operands[j].idx]
                 ELSE /\ v.op # bwd_op
                      /\ o <= Len(program.ops) => v = program.ops[o].operands[j]
  ]_vars

\* A gradient op that was not the last op of the block, and whose result
\* had a consumer, has been rewritten into more than one op.
C18_Witness ==
  /\ InDriver
  /\ pc = "bwd_loop"
  /\ hist.outcome = "decomposed"
  /\ LET p == IndexOf(hist.pre_op.block, LastBwdOp)
     IN /\ p < Len(hist.pre_op.block)
        /\ Len(program.ops) - Len(hist.pre_op.ops) >= 2
        /\ Consumers(hist.pre_op, LastBwdOp) # {}

\* C19: in every state between rewrites, every operand of every op of the
\* block that is not an Absent placeholder is a result of an op that stands
\* earlier in the block.
C19_DefinitionBeforeUse ==
  \A i \in DOMAIN program.block : \A k \in DOMAIN program.ops[program.block[i]].operands :
    LET v == program.ops[program.block[i]].operands[k]
    IN v.op > 0 => \E j \in 1..(i - 1) : program.block[j] = v.op

\* C20: a successful backward rewrite (_decomp_bwd_with_vjp or
\* _decomp_bwd_without_vjp) moves every VariableMap entry whose key is a
\* result of the gradient op to the new result of the same slot, with the
\* mapped forward Value kept; every other entry is as before, and the map
\* has as many entries as before.
C20_KeysMigrateInLockStep ==
  [][BwdRewriteStep =>
      LET R   == results(program, bwd_op)
          res == hist'.result
      IN /\ \A k \in DOMAIN R :
              R[k] \in DOMAIN grad_var_to_var =>
                /\ R[k] \notin DOMAIN grad_var_to_var'
                /\ res[k] \in DOMAIN grad_var_to_var'
                /\ grad_var_to_var'[res[k]] = grad_var_to_var[R[k]]
         /\ \A key \in DOMAIN grad_var_to_var \ Range(R) :
              /\ key \in DOMAIN grad_var_to_var'
              /\ grad_var_to_var'[key] = grad_var_to_var[key]
         /\ Cardinality(DOMAIN grad_var_to_var') = Cardinality(DOMAIN grad_var_to_var)
  ]_vars

\* A rewrite has moved the entry of a gradient-op result to a new Value,
\* next to entries of other gradient Values.
C20_Witness ==
  /\ InDriver
  /\ pc = "bwd_loop"
  /\ hist.outcome = "decomposed"
  /\ \E k \in DOMAIN hist.result :
       /\ Val(LastBwdOp, k) \in DOMAIN hist.pre_map
       /\ Val(LastBwdOp, k) \notin DOMAIN grad_var_to_var
       /\ hist.result[k] \in DOMAIN grad_var_to_var
       /\ hist.result[k].op > Len(hist.pre_op.ops)
  /\ Cardinality(DOMAIN grad_var_to_var) >= 2

\* C21: when the vjp attempt starts, the output-gradient list it hands to
\* the vjp procedure has one slot per output of the forward op, in the
\* order of the outputs; the slot of the output named N holds the gradient
\* op's input declared as N_grad when there is one, and an Absent
\* placeholder otherwise.
C21_OutputGradAssembly ==
  (InDriver /\ pc = "TRY_VJP") =>
    LET g     == _prepare_output_grads(program, fwd_op, bwd_op)
        names == program.ops[fwd_op].out_names
        b     == program.ops[bwd_op]
    IN /\ Len(g) = Len(names)
       /\ \A k \in DOMAIN names :
            LET J == {j \in DOMAIN b.in_names : b.in_names[j] = names[k] \o "_grad"}
            IN IF J = {} THEN g[k] = fake_op_result
               ELSE \E j \in J : g[k] = b.operands[j]

\* the step in which decompose_pir_program translates the external map
TranslationStep == hist'.fn = "decompose_pir_program" /\ runs' = runs + 1

\* the entries of the external map whose two names the mapping holds
Present == {i \in DOMAIN ext_grad_var_to_var :
              /\ ext_grad_var_to_var[i][1] \in DOMAIN param_mapping
              /\ ext_grad_var_to_var[i][2] \in DOMAIN param_mapping}
OneOrTwo(i) ==
  /\ Len(param_mapping[ext_grad_var_to_var[i][1]]) \in {1, 2}
  /\ Len(param_mapping[ext_grad_var_to_var[i][2]]) \in {1, 2}

FromSlice(vals) ==
  Len(vals) = 2 /\ program.ops[vals[2].op].name = "builtin.slice"
FromInplace(vals) ==
  Len(vals) = 2 /\ ~FromSlice(vals) /\ endswith(program.ops[vals[2].op].name, "_")
\* sel(n): the second Value when a slice made it, the first one otherwise
Sel(vals) == IF FromSlice(vals) THEN vals[2] ELSE vals[1]
SelG(i) == Sel(param_mapping[ext_grad_var_to_var[i][1]])
SelV(i) == Sel(param_mapping[ext_grad_var_to_var[i][2]])
Selectable(vals) == Len(vals) = 1 \/ FromSlice(vals) \/ FromInplace(vals)

OperandEntry(p, v, e) ==
  IF ~initialized(p, v) THEN e.kind = "none"
  ELSE IF p.ops[v.op].name = combine_op_name
  THEN e.kind = "list" /\ e.items = p.ops[v.op].operands
  ELSE e.kind = "tensor" /\ e.val = v

\* C23: for every op of the block that is no combine helper, the prepared
\* arguments are one entry per operand, in order, followed by the attribute
\* values in declared order; for a combine helper they are one entry, the
\* list of its own operands.
C23_ArgumentAdapter ==
  \A o \in Range(program.block) :
    LET rec  == program.ops[o]
        args == _prepare_python_api_arguments(program, o)
        n    == Len(rec.operands)
    IN IF rec.name = combine_op_name
       THEN /\ Len(args) = 1
            /\ Len(args[1].inputs) = n
            /\ \A k \in 1..n : OperandEntry(program, rec.operands[k], args[1].inputs[k])
       ELSE /\ Len(args) = n + Len(rec.attr_names)
            /\ \A k \in 1..n : OperandEntry(program, rec.operands[k], args[k])
            /\ \A k \in DOMAIN rec.attr_names :
                 args[n + k].kind = "attr" /\ args[n + k].attr = rec.attrs[k]

\* A rewritten op had read the result of a combine helper, and the ops that
\* replace it read the operands of that helper.
C23_Witness ==
  /\ InDecompose
  /\ \E o \in hist.lowered : \E k \in DOMAIN hist.pre.ops[o].operands :
       LET v == hist.pre.ops[o].operands[k]
       IN /\ v.op > 0
          /\ hist.pre.ops[v.op].name = combine_op_name
          /\ \E c \in Range(program.block) :
               /\ c > Len(hist.pre.ops)
               /\ Range(hist.pre.ops[v.op].operands) \subseteq Range(program.ops[c].operands)

\* C24: a call of the validator on outputs whose count and types agree
\* fails with a ValueError exactly when the op is not on the list of ops
\* that may contain None and some pair has exactly one None member.
C24_UnexpectedNone ==
  hist.fn = "_check_op_results" =>
    LET op_name   == hist.args[1]
        orig_outs == hist.args[2]
        new_outs  == hist.args[3]
    IN (err = "ValueError") <=>
         /\ op_name \notin ops_contain_none
         /\ \E k \in DOMAIN orig_outs : (orig_outs[k] = None) # (new_outs[k] = None)

\* C25: _decomp_bwd_op called with the backward flag off has raised a
\* RuntimeError at START: no forward op was looked up, and the block and
\* the VariableMap are those of the call.  _decomp_bwd_without_vjp called
\* with None for the forward outputs has raised a RuntimeError, with the
\* program (no op created, moved or removed) and the VariableMap those of
\* the call.
C25_PrerequisiteErrors ==
  /\ (hist.fn = "_decomp_bwd_op" /\ ~bwd_prim) =>
       /\ pc = "raised" /\ err = "RuntimeError"
       /\ hist.path = <<"START">>
       /\ fwd_op = 0
       /\ program = hist.pre
       /\ grad_var_to_var = hist.pre_map
  /\ (hist.fn = "_decomp_bwd_without_vjp" /\ hist.args = <<FALSE>>) =>
       /\ pc = "raised" /\ err = "RuntimeError"
       /\ program = hist.pre
       /\ grad_var_to_var = hist.pre_map

\* _decomp_bwd_op was called with the backward flag off on a gradient op
\* that pairs with a forward op and whose VariableMap is not empty.
C25_Witness ==
  /\ hist.fn = "_decomp_bwd_op"
  /\ ~bwd_prim
  /\ pc = "raised"
  /\ PairingHolds(hist.pre, hist.attempts[1], hist.pre_map)
  /\ DOMAIN grad_var_to_var # {}

\* C26: an invocation of _decomp_bwd_op on a paired gradient op whose
\* forward op has a decomposition rule and no vjp rule, and whose rule
\* outputs the validator accepts, ends by a return, and not with the
\* forward op rewritten while the gradient op is still in the block.
C26_FallbackEndsByReturn ==
  (BwdOpOver /\ FallbackCase /\ ~RuleRejected) =>
    /\ pc = "bwd_loop"
    /\ hist.outcome \in {"decomposed", "undecomposed"}
    /\ ~(/\ ~InBlock(program, Candidate(hist.pre_op, LastBwdOp, hist.pre_map))
         /\ InBlock(program, LastBwdOp))

\* C27: when decompose returns, every position of src_vars that holds the
\* first result of a rewritten op, a Value that occurs in src_vars more than
\* once, holds the replacement of that result in the returned list.
C27_RepeatedValueResolves ==
  (InDecompose /\ pc = "returned" /\ Len(ret) = Len(hist.args[1])) =>
    \A i, j \in DOMAIN ret :
      LET v == hist.args[1][i]
      IN (/\ i # j
          /\ hist.args[1][j] = v
          /\ v.idx = 1
          /\ v.op \in hist.lowered
          /\ hist.new_outs[v.op][1] # None) =>
           ret[i] = hist.new_outs[v.op][1]

\* the running or last invocation of _decomp_bwd_op is on an in-place
\* gradient op
InplaceGradOp ==
  /\ InDriver
  /\ hist.path # <<>>
  /\ endswith(hist.pre_op.ops[LastBwdOp].name, "_grad_")

\* C28: the driver hands a gradient op whose name ends with "_grad_" to
\* _decomp_bwd_op, and the invocation ends at FIND_FWD without an error:
\* the op is counted as undecomposed, and the block, its ops and the
\* VariableMap are as they were before the invocation.
C28_InplaceGradOpNeverRewritten ==
  InplaceGradOp =>
    /\ Contains(bwd_ops, hist.pre_op.ops[LastBwdOp].name)
    /\ pc \in {"FIND_FWD", "bwd_loop", "returned"}
    /\ pc # "FIND_FWD" =>
         /\ hist.path = <<"START", "FIND_FWD">>
         /\ hist.outcome = "undecomposed"
         /\ ~hist.paired
         /\ Contains(report.undecomposed, hist.pre_op.ops[LastBwdOp].name)
         /\ ~Contains(report.decomposed, hist.pre_op.ops[LastBwdOp].name)
         /\ InBlock(program, LastBwdOp)
         /\ program = hist.pre_op
         /\ grad_var_to_var = hist.pre_map

\* The pass is over an in-place gradient op whose output gradient leads to
\* an in-place forward op with a vjp rule, and has left it in the block.
C28_Witness ==
  /\ InplaceGradOp
  /\ pc = "returned"
  /\ report.num_undecomposed = 1
  /\ LET f == Candidate(hist.pre_op, LastBwdOp, hist.pre_map)
     IN /\ f > 0
        /\ endswith(hist.pre_op.ops[f].name, "_")
        /\ hist.pre_op.ops[f].name \in vjp_rules
  /\ InBlock(program, LastBwdOp)
====
